---- MODULE Spec2Model ----
(***************************************************************************)
(* The deployment transaction engine of hammer: the core binary            *)
(* (source-code/core/src/main.rs) and the updater binary                   *)
(* (source-code/updater/src/main.rs), which share the lock file, the       *)
(* deployments directory, the current symlink and the Btrfs default        *)
(* subvolume.  Every external command and every file-system call of a verb *)
(* is one step of the process that runs it; an external command may fail.  *)
(***************************************************************************)
EXTENDS Integers, Sequences, FiniteSets, TLC

\* ---------------------------------------------------------------- bounds
MaxTime == 3        \* clock seconds; a deployment is named by its second
NumProcs == 2       \* process slots that can run a verb at the same time
MaxN == 2           \* largest rollback argument tried
MaxRuns == 4        \* verbs started in one behaviour

\* ------------------------------------------------------ program constants
Retention == 5      \* clean_up keeps the 5 newest deployments
NoDeployment == 0   \* Option::None / no symlink / the pre-init root subvolume

Procs == 1..NumProcs
Names == 1..MaxTime

CoreBinds == <<"/proc", "/sys", "/dev", "/run">>
UpdaterBinds == <<"/proc", "/sys", "/dev", "/run", "/tmp">>

TxnVerbs == {"install", "remove", "refresh"}
UpdaterVerbs == {"update", "uinit"}
ReadVerbs == {"list", "status"}
Verbs == TxnVerbs \cup UpdaterVerbs \cup ReadVerbs
           \cup {"switch", "rollback", "cleanup", "init"}
MutatingVerbs == Verbs \ ReadVerbs

VARIABLES
  deps,          \* existing deployment subvolumes: name -> record
  current,       \* target of the current symlink, NoDeployment when absent
  defaultSubvol, \* Btrfs default subvolume: a deployment, or the pre-init root
  lock,          \* /run/hammer.lock exists
  txMarker,      \* /btrfs-root/hammer-transaction: deployment it names, or none
  topMounted,    \* /btrfs-root is a mount point
  now,           \* the clock, in seconds
  proc,          \* per process: position, local variables, temp dir and mounts
  crashed,       \* deployment of a transaction whose process was killed
  runs,          \* verbs started so far
  toolsFail,     \* the external commands of this behaviour may exit with failure
  lastSwitch,    \* the pointer before and after the last switch that returned Ok
  calc           \* a text function of the programs under study: input and results

fsvars == <<deps, current, defaultSubvol, lock, txMarker, topMounted>>
vars == <<deps, current, defaultSubvol, lock, txMarker, topMounted, now, proc,
          crashed, runs, toolsFail, lastSwitch, calc>>

\* ------------------------------------------------------------ file system
\* A deployment directory: the ro property of its subvolume, the status, the
\* description and the parent in the core's sidecar .hammer-meta.json (status
\* "none": no such file), the status and the kind in the
\* updater's sidecar .meta.json, the file hammer-transaction inside it, the
\* subvolumes nested inside it ("none", or all of them "rw" or "ro"), and
\* whether boot/vmlinuz* and boot/initrd.img* exist in it.
NewDep(ro, meta, umeta, marker, nested) ==
  [ro |-> ro, meta |-> meta, desc |-> "none", parent |-> NoDeployment,
   umeta |-> umeta, ukind |-> "none", marker |-> marker, nested |-> nested,
   boot |-> TRUE]

Exists(d) == d \in DOMAIN deps

PutDep(d, rec) == [m \in DOMAIN deps \cup {d} |-> IF m = d THEN rec ELSE deps[m]]

DelDeps(S) == [m \in DOMAIN deps \ S |-> deps[m]]

\* A process: the position and the local variables of its verb, whether the
\* directory mktemp made for it exists, the stack of mounts on that directory,
\* oldest first, and the pointer and the default its verb found when it began.
IdleProc(res) ==
  [pc |-> "idle", verb |-> "none", arg |-> 0, new_deployment |-> NoDeployment,
   temp_chroot |-> FALSE, mounted |-> FALSE, result |-> res, i |-> 0,
   target |-> NoDeployment, old_current |-> NoDeployment,
   temp_dir |-> FALSE, mounts |-> <<>>,
   was_current |-> NoDeployment, was_default |-> NoDeployment]

\* The names of deployments made before the clock of the model starts.
OldNames == {0 - d : d \in 1..(Retention - 1)}

\* The oldest of the old names: the deployment init made on a system in long use.
FirstName == CHOOSE x \in OldNames : \A y \in OldNames : x <= y

\* The sealed deployment an install leaves when it succeeded: status ready, the
\* marker file the install created inside it, the parent it was made from.
InstalledDep(parent, nested) ==
  [NewDep(TRUE, "ready", "none", TRUE, nested) EXCEPT !.desc = "install", !.parent = parent]

\* The deployments of a system at boot: none on a system that was never
\* initialized; the sealed snapshot init made; that one and a second one that
\* an install made from it and made current, and in which the installed packages
\* created a subvolume; or a system in long use, with the snapshot of init and
\* one deployment more than cleanup retains, each installed from the one before.
BootStores ==
  { [m \in {} |-> NewDep(TRUE, "none", "none", FALSE, "none")],
    [m \in {1} |-> NewDep(TRUE, "none", "none", FALSE, "none")],
    [m \in {1, 2} |-> IF m = 1 THEN NewDep(TRUE, "none", "none", FALSE, "none")
                               ELSE InstalledDep(1, "rw")],
    [m \in OldNames \cup {1, 2} |->
       IF m = FirstName THEN NewDep(TRUE, "none", "none", FALSE, "none")
       ELSE InstalledDep(IF m = 1 THEN m - 2 ELSE m - 1, "none")] }

\* No text function is under study: the verbs run.
NoCalc ==
  [fn |-> "none", impl |-> "none", pc |-> "done", src |-> <<>>, subs |-> {},
   style |-> "none", withTop |-> FALSE, writable |-> FALSE, i |-> 0,
   made |-> {}, result |-> "none", stdout |-> <<>>,
   core |-> <<>>, coreDone |-> FALSE, updater |-> <<>>, updaterDone |-> FALSE]

\* The newest deployment of a store, NoDeployment of an empty one.
Newest(store) ==
  IF DOMAIN store = {} THEN NoDeployment
  ELSE CHOOSE x \in DOMAIN store : \A y \in DOMAIN store : y <= x

\* A freshly booted system: no process runs, /run holds no lock file, the newest
\* deployment is the current one and the default subvolume.
Init ==
  /\ deps \in BootStores
  /\ current = Newest(deps)
  /\ defaultSubvol = Newest(deps)
  /\ lock = FALSE
  /\ txMarker = NoDeployment
  /\ topMounted \in BOOLEAN
  /\ now = IF DOMAIN deps = {} THEN 1 ELSE Newest(deps)
  /\ proc = [p \in Procs |-> IdleProc("none")]
  /\ crashed = NoDeployment
  /\ runs = 0
  /\ toolsFail \in BOOLEAN
  /\ lastSwitch = [from |-> NoDeployment, to |-> NoDeployment]
  /\ calc = NoCalc

\* run_command: the exit status of an external command, or the outcome of a
\* file-system call, when nothing in the state decides it.
ToolResults == IF toolsFail THEN BOOLEAN ELSE {TRUE}

\* ------------------------------------------------------------ scheduling
\* The process goes on with local variables loc.
Move(p, loc) ==
  /\ proc' = [proc EXCEPT ![p] = loc]
  /\ UNCHANGED <<crashed, runs, toolsFail, lastSwitch, calc>>

Goto(p, pc) == Move(p, [proc[p] EXCEPT !.pc = pc])

\* The arguments a verb is started with.
ArgsOf(v) ==
  CASE v = "switch" -> 0..MaxTime \cup {FirstName}   \* None, or Some(name)
    [] v = "rollback" -> 0..MaxN
    [] OTHER -> {0}

\* A program whose read-only verbs take the lock as every other verb does.
FirstPcLocksReaders(v) ==
  IF v \in UpdaterVerbs THEN "ensure_top" ELSE "acquire_lock"

\* Where a verb begins: the read-only verbs take no lock, the updater mounts
\* the top level before it takes the lock, every other verb takes the lock first.
FirstPc(v) ==
  CASE v \in ReadVerbs -> "read"
    [] v \in UpdaterVerbs -> "ensure_top"
    [] OTHER -> "acquire_lock"

\* The verb returns to its caller with result res.  The temp dir of a verb and
\* the mounts on it are followed for as long as the process runs.  A crashed
\* transaction is pending until a cleanup has run.  A switch that returns Ok is
\* remembered with the pointer it found and the target it selected.
Return(p, res) ==
  /\ proc' = [proc EXCEPT ![p] = IdleProc(res)]
  /\ crashed' = IF proc[p].verb = "cleanup" THEN NoDeployment ELSE crashed
  /\ lastSwitch' = IF proc[p].verb = "switch" /\ res = "ok"
                     THEN [from |-> proc[p].old_current, to |-> proc[p].target]
                     ELSE lastSwitch
  /\ UNCHANGED <<runs, toolsFail, calc>>

\* main: a process starts a verb.
StartOf(p, verbs) ==
  /\ proc[p].pc = "idle"
  /\ runs < MaxRuns
  /\ \E v \in verbs : \E a \in ArgsOf(v) :
       proc' = [proc EXCEPT ![p] =
                  [IdleProc("none") EXCEPT !.pc = FirstPc(v), !.verb = v, !.arg = a,
                                           !.was_current = current,
                                           !.was_default = defaultSubvol]]
  /\ runs' = runs + 1
  /\ UNCHANGED <<fsvars, now, crashed, toolsFail, lastSwitch, calc>>

Start(p) == StartOf(p, Verbs)

\* The positions at which a verb reads the clock.
ClockReads == {"create_deployment", "init_snapshot", "uinit_snapshot"}

\* The clock advances.  Only the reads of the clock tell when it did: it is let
\* advance between verbs and right before a read.
Tick ==
  /\ now < MaxTime
  /\ \A p \in Procs : proc[p].pc \in ClockReads \cup {"idle"}
  /\ now' = now + 1
  /\ UNCHANGED <<fsvars, proc, crashed, runs, toolsFail, lastSwitch, calc>>

\* An error inside the closure of atomic_install / atomic_remove / atomic_refresh
\* leaves the closure and runs the code after it; in every other verb the `?`
\* returns from the verb at once.
Fail(p, res) ==
  IF proc[p].verb \in TxnVerbs
    THEN Move(p, [proc[p] EXCEPT !.result = res, !.pc = "fin_broken"])
    ELSE Return(p, res)

\* The symlink lives on the top-level mount.
SymlinkVisible == topMounted /\ current # NoDeployment

\* ------------------------------------------------------------ Lock Manager
\* acquire_lock, first half: the existence check.
acquire_lock(p) ==
  /\ proc[p].pc = "acquire_lock"
  /\ IF lock THEN Fail(p, "locked") ELSE Goto(p, "lock_create")
  /\ UNCHANGED <<fsvars, now>>

AfterLock(v) ==
  CASE v = "init" -> "ensure_top"
    [] v = "uinit" -> "uinit_snapshot"
    [] OTHER -> "validate"

\* acquire_lock, second half: File::create, which also succeeds on a file that
\* exists by now.
lock_create(p) ==
  /\ proc[p].pc = "lock_create"
  /\ lock' = TRUE
  /\ Goto(p, AfterLock(proc[p].verb))
  /\ UNCHANGED <<deps, current, defaultSubvol, txMarker, topMounted, now>>

\* -------------------------------------------------------------- Validation
AfterValidate(v) ==
  CASE v \in TxnVerbs -> "ensure_top"
    [] v = "update" -> "create_deployment"
    [] v = "switch" -> "switch_target"
    [] v = "rollback" -> "rollback_target"
    [] OTHER -> "clean_up"

\* validate_system: the file system is Btrfs, current is a symlink, and its
\* target has ro=true.
validate_system(p) ==
  /\ proc[p].pc = "validate"
  /\ \E ok \in ToolResults :
       IF ok /\ SymlinkVisible /\ Exists(current) /\ deps[current].ro
         THEN Goto(p, AfterValidate(proc[p].verb))
         ELSE Fail(p, "err")
  /\ UNCHANGED <<fsvars, now>>

\* ------------------------------------------------------ Mount Orchestrator
AfterTop(v) ==
  CASE v \in TxnVerbs -> "create_deployment"
    [] v = "init" -> "init_snapshot"
    [] OTHER -> "acquire_lock"

\* ensure_top_mounted: nothing to do on a mount point, else mount subvol=/.
ensure_top_mounted(p) ==
  /\ proc[p].pc = "ensure_top"
  /\ \E ok \in ToolResults :
       IF topMounted \/ ok
         THEN /\ topMounted' = TRUE
              /\ Goto(p, AfterTop(proc[p].verb))
         ELSE /\ topMounted' = topMounted
              /\ Fail(p, "err")
  /\ UNCHANGED <<deps, current, defaultSubvol, lock, txMarker, now>>

\* --------------------------------------------------------- Btrfs Operator
\* A btrfs that would snapshot into a read-only subvolume as well.
CanSnapshotIntoSealed(dst) == TRUE

\* btrfs subvolume snapshot [-r] src dst.  Onto a free name it creates dst with
\* the content of src (its sidecars and its hammer-transaction file included) and
\* ro as asked.  Onto an existing directory it creates the snapshot inside that
\* directory, which a read-only subvolume refuses: the directory's own
\* subvolume stays as it was and has one more subvolume nested in it.
\* snapshot_recursive then snapshots the subvolumes nested in src with the same
\* flag.
CanSnapshot(dst) == ~Exists(dst) \/ ~deps[dst].ro

Snapshot(content, dst, writable) ==
  IF Exists(dst)
    THEN PutDep(dst, [deps[dst] EXCEPT !.nested = IF writable THEN "rw" ELSE "ro"])
    ELSE PutDep(dst, [content EXCEPT
                        !.ro = ~writable,
                        !.nested = IF @ = "none" THEN "none"
                                   ELSE IF writable THEN "rw" ELSE "ro"])

\* create_deployment(true): snapshot current onto hammer-<now>, then make the
\* snapshot and its nested subvolumes writable.  A failure after the top-level
\* snapshot leaves the new directory behind and returns no name.
create_deployment(p) ==
  /\ proc[p].pc = "create_deployment"
  /\ \E ok \in ToolResults, made \in BOOLEAN :
       IF SymlinkVisible /\ Exists(current) /\ CanSnapshot(now) /\ (ok \/ made)
         THEN /\ deps' = Snapshot(deps[current], now, TRUE)
              /\ IF ok
                   THEN Move(p, [proc[p] EXCEPT !.new_deployment = now,
                                             !.pc = "marker"])
                   ELSE Fail(p, "err")
         ELSE /\ deps' = deps
              /\ Fail(p, "err")
  /\ UNCHANGED <<current, defaultSubvol, lock, txMarker, topMounted, now>>

\* A file inside deployment d can be created or written.
Writable(d) == topMounted /\ Exists(d) /\ ~deps[d].ro

\* create_transaction_marker of the core writes {deployment}/hammer-transaction;
\* the closure then reads the symlink, the root device and the subvolume name.
create_transaction_marker(p) ==
  /\ proc[p].pc = "marker"
  /\ proc[p].verb \in TxnVerbs
  /\ LET nd == proc[p].new_deployment IN
     \E ok \in ToolResults :
       IF Writable(nd)
         THEN /\ deps' = PutDep(nd, [deps[nd] EXCEPT !.marker = TRUE])
              /\ IF ok /\ SymlinkVisible THEN Goto(p, "mktemp") ELSE Fail(p, "err")
         ELSE /\ deps' = deps
              /\ Fail(p, "err")
  /\ UNCHANGED <<current, defaultSubvol, lock, txMarker, topMounted, now>>

\* create_transaction_marker of the updater writes the deployment's path to
\* /btrfs-root/hammer-transaction; update_command then reads the root device and
\* the subvolume name.
updater_create_transaction_marker(p) ==
  /\ proc[p].pc = "marker"
  /\ proc[p].verb = "update"
  /\ \E ok \in ToolResults :
       IF topMounted
         THEN /\ txMarker' = proc[p].new_deployment
              /\ IF ok THEN Goto(p, "mktemp") ELSE Fail(p, "err")
         ELSE /\ txMarker' = txMarker
              /\ Fail(p, "err")
  /\ UNCHANGED <<deps, current, defaultSubvol, lock, topMounted, now>>

\* The core reads the symlink for the parent of the new deployment; then
\* create_temp_dir: mktemp -d.
create_temp_dir(p) ==
  /\ proc[p].pc = "mktemp"
  /\ \E ok \in ToolResults :
       IF ok
         THEN Move(p, [proc[p] EXCEPT
                         !.temp_chroot = TRUE, !.temp_dir = TRUE,
                         !.old_current = IF proc[p].verb \in TxnVerbs
                                           THEN current ELSE @,
                         !.pc = "mount_subvol"])
         ELSE Fail(p, "err")
  /\ UNCHANGED <<fsvars, now>>

\* mount -o subvol=<new> <device> <temp dir>
mount_subvol(p) ==
  /\ proc[p].pc = "mount_subvol"
  /\ \E ok \in ToolResults :
       IF ok /\ Exists(proc[p].new_deployment)
         THEN Move(p, [proc[p] EXCEPT !.mounts = <<"subvol">>, !.pc = "bind", !.i = 1])
         ELSE Fail(p, "err")
  /\ UNCHANGED <<fsvars, now>>

BindsOf(v) == IF v \in UpdaterVerbs THEN UpdaterBinds ELSE CoreBinds

\* A program that switched to the new deployment right after the bind mounts,
\* before the command in the chroot has run.
AfterBindSwitchesFirst(v) == IF v = "update" THEN "u_unlink" ELSE "set_default"

AfterBind(v) == IF v \in {"install", "remove"} THEN "dpkg_check" ELSE "chroot"

\* bind_mounts_for_chroot(chroot, true): one pass of its loop.  A failed bind
\* leaves the loop with the earlier binds in place; the caller sets `mounted`
\* only after the whole loop.
bind_mounts_for_chroot(p) ==
  /\ proc[p].pc = "bind"
  /\ LET binds == BindsOf(proc[p].verb)
         i == proc[p].i IN
     \E ok \in ToolResults :
       IF ok
         THEN IF i < Len(binds)
                THEN Move(p, [proc[p] EXCEPT !.mounts = Append(@, binds[i]),
                                             !.i = i + 1])
                ELSE Move(p, [proc[p] EXCEPT !.mounts = Append(@, binds[i]),
                                             !.mounted = (proc[p].verb \in TxnVerbs),
                                             !.pc = AfterBind(proc[p].verb)])
         ELSE Fail(p, "err")
  /\ UNCHANGED <<fsvars, now>>

\* --------------------------------------------------------- Chroot Executor
\* The probe `dpkg -s <package>` inside the chroot: install refuses a package
\* that is installed, remove one that is not.
dpkg_check(p) ==
  /\ proc[p].pc = "dpkg_check"
  /\ \E installed \in BOOLEAN :
       IF installed = (proc[p].verb = "remove")
         THEN Goto(p, "chroot")
         ELSE Fail(p, "err")
  /\ UNCHANGED <<fsvars, now>>

\* What the package manager may leave of the kernel image and the initrd: apt
\* remove and autoremove take the kernel away when the package named, or its
\* last dependant, is the kernel's; update-initramfs -u -k all then has no
\* kernel to work on and succeeds.
BootFilesAfter(v) == IF v = "remove" THEN BOOLEAN ELSE {TRUE}

\* The verb's package-manager command line inside the chroot.
chroot_command(p) ==
  /\ proc[p].pc = "chroot"
  /\ LET nd == proc[p].new_deployment IN
     \E ok \in ToolResults, kept \in BootFilesAfter(proc[p].verb) :
       IF ok
         THEN /\ deps' = IF Exists(nd)
                          THEN PutDep(nd, [deps[nd] EXCEPT !.boot = @ /\ kept])
                          ELSE deps
              /\ Goto(p, "write_meta")
         ELSE /\ deps' = deps
              /\ Fail(p, "err")
  /\ UNCHANGED <<current, defaultSubvol, lock, txMarker, topMounted, now>>

\* ---------------------------------------------------- Metadata & Fingerprint
\* write_meta of the core creates .hammer-meta.json, write_meta of the updater
\* creates .meta.json; both need a writable deployment.
Description(v) ==
  CASE v = "update" -> "update"
    [] v \in {"init", "uinit"} -> "initial"
    [] OTHER -> v               \* "install <package>", "remove <package>", "refresh"

\* A write_meta of the core that records the deployment as its own parent.
WriteMetaSelfParent(d, v, parent, status) ==
  IF v \in UpdaterVerbs
    THEN PutDep(d, [deps[d] EXCEPT !.umeta = status, !.ukind = Description(v)])
    ELSE PutDep(d, [deps[d] EXCEPT !.meta = status, !.desc = Description(v),
                                   !.parent = d])

WriteMeta(d, v, parent, status) ==
  IF v \in UpdaterVerbs
    THEN PutDep(d, [deps[d] EXCEPT !.umeta = status, !.ukind = Description(v)])
    ELSE PutDep(d, [deps[d] EXCEPT !.meta = status, !.desc = Description(v),
                                   !.parent = parent])

\* get_kernel_version, sanity_check (a placeholder that accepts everything),
\* compute_system_version and write_meta(.., "ready").
write_meta(p) ==
  /\ proc[p].pc = "write_meta"
  /\ LET nd == proc[p].new_deployment IN
     \E ok \in ToolResults :
       IF ok /\ Writable(nd)
         THEN /\ deps' = WriteMeta(nd, proc[p].verb, proc[p].old_current, "ready")
              /\ Goto(p, "grub")
         ELSE /\ deps' = deps
              /\ Fail(p, "err")
  /\ UNCHANGED <<current, defaultSubvol, lock, txMarker, topMounted, now>>

\* update_bootloader_entries (a placeholder) and update-grub inside the chroot.
update_grub(p) ==
  /\ proc[p].pc = "grub"
  /\ \E ok \in ToolResults :
       IF ok
         THEN Move(p, [proc[p] EXCEPT !.pc = "unbind", !.i = 1])
         ELSE Fail(p, "err")
  /\ UNCHANGED <<fsvars, now>>

\* umount of one mount of the stack: the sequence without it.
Without(stack, m) == SelectSeq(stack, LAMBDA x : x # m)

Mounted(stack, m) == \E k \in 1..Len(stack) : stack[k] = m

\* bind_mounts_for_chroot(chroot, false) of the core, one pass of its loop, in
\* the order of the list: a failed umount is logged and the loop goes on.
unbind_mounts_for_chroot(p) ==
  /\ proc[p].pc \in {"unbind", "fin_unbind"}
  /\ proc[p].verb \in TxnVerbs
  /\ LET i == proc[p].i IN
     \E ok \in ToolResults :
       Move(p, [proc[p] EXCEPT
                  !.mounts = IF ok THEN Without(@, CoreBinds[i]) ELSE @,
                  !.i = IF i < Len(CoreBinds) THEN i + 1 ELSE i,
                  !.pc = IF i < Len(CoreBinds) THEN @
                         ELSE IF @ = "unbind" THEN "umount_subvol" ELSE "fin_umount"])
  /\ UNCHANGED <<fsvars, now>>

\* bind_mounts_for_chroot(chroot, false) of the updater, one pass of its loop: a
\* failed umount is an error.
updater_unbind_mounts_for_chroot(p) ==
  /\ proc[p].pc = "unbind"
  /\ proc[p].verb \in UpdaterVerbs
  /\ LET i == proc[p].i IN
     \E ok \in ToolResults :
       IF ok /\ Mounted(proc[p].mounts, UpdaterBinds[i])
         THEN Move(p, [proc[p] EXCEPT
                         !.mounts = Without(@, UpdaterBinds[i]),
                         !.i = IF i < Len(UpdaterBinds) THEN i + 1 ELSE i,
                         !.pc = IF i < Len(UpdaterBinds) THEN @ ELSE "umount_subvol"])
         ELSE Fail(p, "err")
  /\ UNCHANGED <<fsvars, now>>

\* umount of the temp dir: busy while a bind mount is still on top of it.
CanUmountSubvol(stack) == stack = <<"subvol">>

\* umount <temp dir> inside the verb: a failure is an error.
umount_temp_chroot(p) ==
  /\ proc[p].pc = "umount_subvol"
  /\ \E ok \in ToolResults :
       IF ok /\ CanUmountSubvol(proc[p].mounts)
         THEN Move(p, [proc[p] EXCEPT !.mounts = <<>>, !.mounted = FALSE, !.pc = "seal"])
         ELSE Fail(p, "err")
  /\ UNCHANGED <<fsvars, now>>

AfterSeal(v) ==
  CASE v = "update" -> "u_unlink"
    [] v = "uinit" -> "uinit_marker"
    [] OTHER -> "set_default"

\* set_subvolume_readonly(new, true): btrfs property set -ts <new> ro true, on
\* the deployment's own subvolume.
set_subvolume_readonly(p) ==
  /\ proc[p].pc = "seal"
  /\ LET nd == proc[p].new_deployment IN
     \E ok \in ToolResults :
       IF ok /\ topMounted /\ Exists(nd)
         THEN /\ deps' = PutDep(nd, [deps[nd] EXCEPT !.ro = TRUE])
              /\ Goto(p, AfterSeal(proc[p].verb))
         ELSE /\ deps' = deps
              /\ Fail(p, "err")
  /\ UNCHANGED <<current, defaultSubvol, lock, txMarker, topMounted, now>>

\* -------------------------------------------------------- Deployment Store
\* The deployment a verb hands to switch_to_deployment_inner.
SwitchArg(p) ==
  IF proc[p].verb \in {"switch", "rollback"}
    THEN proc[p].target
    ELSE proc[p].new_deployment

\* switch_to_deployment_inner, first part: get_subvol_id and
\* btrfs subvolume set-default.
set_default(p) ==
  /\ proc[p].pc = "set_default"
  /\ \E ok \in ToolResults :
       IF ok /\ topMounted /\ Exists(SwitchArg(p))
         THEN /\ defaultSubvol' = SwitchArg(p)
              /\ Goto(p, "unlink_current")
         ELSE /\ defaultSubvol' = defaultSubvol
              /\ Fail(p, "err")
  /\ UNCHANGED <<deps, current, lock, txMarker, topMounted, now>>

\* switch_to_deployment_inner, second part: the symlink is removed when
\* Path::exists, which follows it, finds its target.
unlink_current(p) ==
  /\ proc[p].pc = "unlink_current"
  /\ current' = IF SymlinkVisible /\ Exists(current) THEN NoDeployment ELSE current
  /\ Goto(p, "symlink")
  /\ UNCHANGED <<deps, defaultSubvol, lock, txMarker, topMounted, now>>

AfterSymlink(v) ==
  CASE v \in TxnVerbs -> "remove_marker"
    [] v = "switch" -> "switch_meta"
    [] v = "rollback" -> "rollback_meta"
    [] OTHER -> "init_meta"

\* switch_to_deployment_inner, third part: symlink(deployment, current), which
\* fails on a path that exists.
symlink_current(p) ==
  /\ proc[p].pc = "symlink"
  /\ IF topMounted /\ current = NoDeployment
       THEN /\ current' = SwitchArg(p)
            /\ Goto(p, AfterSymlink(proc[p].verb))
       ELSE /\ current' = current
            /\ Fail(p, "err")
  /\ UNCHANGED <<deps, defaultSubvol, lock, txMarker, topMounted, now>>

\* remove_transaction_marker of the core removes /btrfs-root/hammer-transaction
\* and ignores the outcome; the closure then returns Ok.
remove_transaction_marker(p) ==
  /\ proc[p].pc = "remove_marker"
  /\ proc[p].verb \in TxnVerbs
  /\ txMarker' = NoDeployment
  /\ Move(p, [proc[p] EXCEPT !.result = "ok", !.pc = "fin_broken"])
  /\ UNCHANGED <<deps, current, defaultSubvol, lock, topMounted, now>>

\* update_meta(deployment, Some(status), ..): no sidecar is no error; else the
\* sidecar is opened for writing, which a read-only subvolume refuses.
HasMeta(d) == topMounted /\ Exists(d) /\ deps[d].meta # "none"

UpdateMetaOk(d) == ~HasMeta(d) \/ ~deps[d].ro

UpdateMeta(d, status) ==
  IF HasMeta(d) /\ ~deps[d].ro
    THEN PutDep(d, [deps[d] EXCEPT !.meta = status])
    ELSE deps

\* ---------------------------------------- the code after the closure
\* if result.is_err() { set_status_broken(new_deployment) }, outcome ignored.
set_status_broken(p) ==
  /\ proc[p].pc = "fin_broken"
  /\ deps' = IF proc[p].result # "ok" /\ proc[p].new_deployment # NoDeployment
               THEN UpdateMeta(proc[p].new_deployment, "broken")
               ELSE deps
  /\ IF proc[p].mounted /\ proc[p].temp_chroot
       THEN Move(p, [proc[p] EXCEPT !.pc = "fin_unbind", !.i = 1])
       ELSE Goto(p, "fin_rmtemp")
  /\ UNCHANGED <<current, defaultSubvol, lock, txMarker, topMounted, now>>

\* let _ = run_command("umount", &[tc]) after the closure.
fin_umount(p) ==
  /\ proc[p].pc = "fin_umount"
  /\ \E ok \in ToolResults :
       Move(p, [proc[p] EXCEPT !.mounts = IF ok /\ CanUmountSubvol(@) THEN <<>> ELSE @,
                               !.pc = "fin_rmtemp"])
  /\ UNCHANGED <<fsvars, now>>

\* fs::remove_dir_all(tc): whether tc exists afterwards.  The directory goes
\* unless a mount is on it: a mount point cannot be removed.
RemoveDirAll(exists, stack) == exists /\ stack # <<>>

\* if Path::new(&tc).exists() { let _ = fs::remove_dir_all(&tc); }
remove_temp_chroot(p) ==
  /\ proc[p].pc = "fin_rmtemp"
  /\ Move(p, [proc[p] EXCEPT
                 !.temp_dir = IF proc[p].temp_chroot
                                THEN RemoveDirAll(@, proc[p].mounts) ELSE @,
                 !.pc = "fin_unlock"])
  /\ UNCHANGED <<fsvars, now>>

\* release_lock() and the return of the closure's result.
fin_unlock(p) ==
  /\ proc[p].pc = "fin_unlock"
  /\ lock' = FALSE
  /\ Return(p, proc[p].result)
  /\ UNCHANGED <<deps, current, defaultSubvol, txMarker, topMounted, now>>

\* ------------------------------------------------- switch, rollback, cleanup
\* get_deployments: the hammer-* directories under /btrfs-root/deployments.
get_deployments == IF topMounted THEN DOMAIN deps ELSE {}

\* The element of S with exactly n larger ones: index n of S sorted descending.
NthNewest(S, n) == CHOOSE x \in S : Cardinality({y \in S : y > x}) = n

\* switch_deployment up to the call of switch_to_deployment_inner: the target
\* is the named deployment or, without a name, the second newest; it must exist.
switch_target(p) ==
  /\ proc[p].pc = "switch_target"
  /\ LET ds == get_deployments
         ok == IF proc[p].arg = NoDeployment
                 THEN Cardinality(ds) >= 2
                 ELSE topMounted /\ Exists(proc[p].arg)
         t == IF proc[p].arg = NoDeployment THEN NthNewest(ds, 1) ELSE proc[p].arg IN
     IF ok /\ SymlinkVisible
       THEN Move(p, [proc[p] EXCEPT !.target = t, !.old_current = current,
                                 !.pc = "set_default"])
       ELSE Fail(p, "err")
  /\ UNCHANGED <<fsvars, now>>

\* rollback(n) up to the call of switch_to_deployment_inner: the target is
\* index n of the deployments sorted descending.
rollback_target(p) ==
  /\ proc[p].pc = "rollback_target"
  /\ LET ds == get_deployments IN
     IF Cardinality(ds) >= proc[p].arg + 1 /\ SymlinkVisible
       THEN Move(p, [proc[p] EXCEPT !.target = NthNewest(ds, proc[p].arg),
                                 !.old_current = current,
                                 !.pc = "set_default"])
       ELSE Fail(p, "err")
  /\ UNCHANGED <<fsvars, now>>

\* The status switch_deployment and rollback write to the old current.
DeposedStatus(v) == IF v = "switch" THEN "previous" ELSE "rollback"

\* update_meta(old_current, ..)? of switch_deployment and of rollback.
update_old_current(p) ==
  /\ proc[p].pc \in {"switch_meta", "rollback_meta"}
  /\ IF UpdateMetaOk(proc[p].old_current)
       THEN /\ deps' = UpdateMeta(proc[p].old_current, DeposedStatus(proc[p].verb))
            /\ Goto(p, "release")
       ELSE /\ deps' = deps
            /\ Fail(p, "err")
  /\ UNCHANGED <<current, defaultSubvol, lock, txMarker, topMounted, now>>

\* release_lock() on the success path of switch_deployment, rollback, clean_up,
\* init and update_command, then Ok(()).
release_lock(p) ==
  /\ proc[p].pc = "release"
  /\ lock' = FALSE
  /\ Return(p, "ok")
  /\ UNCHANGED <<deps, current, defaultSubvol, txMarker, topMounted, now>>

\* A cleanup that keeps the oldest names: deployments[5..len] of the sorted list.
CleanupCandidatesNewest(S) ==
  IF Cardinality(S) > Retention
    THEN {x \in S : Cardinality({y \in S : y < x}) >= Retention}
    ELSE {}

\* deployments[0..len-5] of the sorted list when it has more than 5 entries.
CleanupCandidates(S) ==
  IF Cardinality(S) > Retention
    THEN {x \in S : Cardinality({y \in S : y > x}) >= Retention}
    ELSE {}

\* btrfs subvolume delete refuses the default subvolume.
CanDelete(d) == d # defaultSubvol

\* clean_up after validate_system: every candidate is deleted; a delete that
\* fails is logged and the loop goes on.
clean_up(p) ==
  /\ proc[p].pc = "clean_up"
  /\ LET cand == CleanupCandidates(get_deployments) IN
     \E failed \in (IF toolsFail THEN SUBSET cand ELSE {{}}) :
       deps' = DelDeps({d \in cand \ failed : CanDelete(d)})
  /\ Goto(p, "release")
  /\ UNCHANGED <<current, defaultSubvol, lock, txMarker, topMounted, now>>

\* --------------------------------------------------------------------- init
\* init of the core: a read-only snapshot of /btrfs-root onto hammer-<now>.
init_snapshot(p) ==
  /\ proc[p].pc = "init_snapshot"
  /\ \E ok \in ToolResults, made \in BOOLEAN :
       IF topMounted /\ CanSnapshot(now) /\ (ok \/ made)
         THEN /\ deps' = Snapshot(NewDep(TRUE, "none", "none", FALSE, "none"), now, FALSE)
              /\ IF ok
                   THEN Move(p, [proc[p] EXCEPT !.new_deployment = now, !.pc = "seal"])
                   ELSE Fail(p, "err")
         ELSE /\ deps' = deps
              /\ Fail(p, "err")
  /\ UNCHANGED <<current, defaultSubvol, lock, txMarker, topMounted, now>>

\* init of the core after the switch: get_kernel_version, compute_system_version
\* and write_meta(.., "current") into the sealed deployment.
init_meta(p) ==
  /\ proc[p].pc = "init_meta"
  /\ LET nd == proc[p].new_deployment IN
     \E ok \in ToolResults :
       IF ok /\ Writable(nd)
         THEN /\ deps' = WriteMeta(nd, proc[p].verb, NoDeployment, "current")
              /\ Goto(p, "release")
         ELSE /\ deps' = deps
              /\ Fail(p, "err")
  /\ UNCHANGED <<current, defaultSubvol, lock, txMarker, topMounted, now>>

\* ------------------------------------------------------------ list, status
\* list_deployments reads the directory and status the symlink, which status
\* needs.
read_only_verb(p) ==
  /\ proc[p].pc = "read"
  /\ IF proc[p].verb = "status" /\ ~SymlinkVisible
       THEN Return(p, "err")
       ELSE Move(p, [proc[p] EXCEPT !.result = "ok", !.pc = "print_meta"])
  /\ UNCHANGED <<fsvars, now>>

\* The sidecars are read and printed, and the verb returns Ok.
print_meta(p) ==
  /\ proc[p].pc = "print_meta"
  /\ Return(p, proc[p].result)
  /\ UNCHANGED <<fsvars, now>>

\* ------------------------------------------------------------ the updater
\* init_command from the Btrfs probe to the writable snapshot of the running
\* root onto hammer-<now>, then get_root_device and get_subvol_name.
updater_init_snapshot(p) ==
  /\ proc[p].pc = "uinit_snapshot"
  /\ \E ok \in ToolResults, made \in BOOLEAN :
       IF topMounted /\ CanSnapshot(now) /\ (ok \/ made)
         THEN /\ deps' = Snapshot(NewDep(FALSE, "none", "none", FALSE, "none"), now, TRUE)
              /\ IF ok
                   THEN Move(p, [proc[p] EXCEPT !.new_deployment = now,
                                             !.pc = "mktemp"])
                   ELSE Fail(p, "err")
         ELSE /\ deps' = deps
              /\ Fail(p, "err")
  /\ UNCHANGED <<current, defaultSubvol, lock, txMarker, topMounted, now>>

\* init_command: create_transaction_marker after the deployment is sealed.
updater_init_marker(p) ==
  /\ proc[p].pc = "uinit_marker"
  /\ IF topMounted
       THEN /\ txMarker' = proc[p].new_deployment
            /\ Goto(p, "u_unlink")
       ELSE /\ txMarker' = txMarker
            /\ Fail(p, "err")
  /\ UNCHANGED <<deps, current, defaultSubvol, lock, topMounted, now>>

\* switch_to_deployment of the updater, first half: fs::remove_file(current)?
updater_unlink_current(p) ==
  /\ proc[p].pc = "u_unlink"
  /\ IF SymlinkVisible
       THEN /\ current' = NoDeployment
            /\ Goto(p, "u_symlink")
       ELSE /\ current' = current
            /\ Fail(p, "err")
  /\ UNCHANGED <<deps, defaultSubvol, lock, txMarker, topMounted, now>>

\* switch_to_deployment of the updater, second half: symlink(deployment,
\* current)?; init_command then returns Ok without releasing the lock.
updater_symlink_current(p) ==
  /\ proc[p].pc = "u_symlink"
  /\ IF topMounted /\ current = NoDeployment
       THEN /\ current' = proc[p].new_deployment
            /\ IF proc[p].verb = "update"
                 THEN Goto(p, "u_remove_marker")
                 ELSE Return(p, "ok")
       ELSE /\ current' = current
            /\ Fail(p, "err")
  /\ UNCHANGED <<deps, defaultSubvol, lock, txMarker, topMounted, now>>

\* remove_transaction_marker of the updater: fs::remove_file(marker)?
updater_remove_transaction_marker(p) ==
  /\ proc[p].pc = "u_remove_marker"
  /\ IF topMounted /\ txMarker # NoDeployment
       THEN /\ txMarker' = NoDeployment
            /\ Goto(p, "release")
       ELSE /\ txMarker' = txMarker
            /\ Fail(p, "err")
  /\ UNCHANGED <<deps, current, defaultSubvol, lock, topMounted, now>>

\* ------------------------------------------------------------------ a kill
\* The process has written the transaction marker of its new deployment, and
\* the marker is still there.
MarkerLeft(p) ==
  LET nd == proc[p].new_deployment IN
  /\ nd # NoDeployment
  /\ proc[p].pc # "marker"
  /\ IF proc[p].verb \in UpdaterVerbs
       THEN txMarker = nd
       ELSE Exists(nd) /\ deps[nd].marker

\* The process is killed by a signal: nothing of the verb runs any more.  A kill
\* that leaves the lock file and a transaction marker is a crashed transaction.
Kill(p) ==
  /\ proc[p].pc # "idle"
  /\ proc' = [proc EXCEPT ![p] = IdleProc("killed")]
  /\ crashed' = IF lock /\ MarkerLeft(p) THEN proc[p].new_deployment ELSE crashed
  /\ UNCHANGED <<fsvars, now, runs, toolsFail, lastSwitch, calc>>

\* The steps of the verbs.
VerbStep(p) ==
  \/ Start(p)
  \/ acquire_lock(p) \/ lock_create(p) \/ validate_system(p) \/ ensure_top_mounted(p)
  \/ create_deployment(p) \/ create_transaction_marker(p)
  \/ updater_create_transaction_marker(p)
  \/ create_temp_dir(p) \/ mount_subvol(p) \/ bind_mounts_for_chroot(p)
  \/ dpkg_check(p) \/ chroot_command(p) \/ write_meta(p) \/ update_grub(p)
  \/ unbind_mounts_for_chroot(p) \/ updater_unbind_mounts_for_chroot(p)
  \/ umount_temp_chroot(p) \/ set_subvolume_readonly(p)
  \/ set_default(p) \/ unlink_current(p) \/ symlink_current(p)
  \/ remove_transaction_marker(p)
  \/ set_status_broken(p) \/ fin_umount(p) \/ remove_temp_chroot(p) \/ fin_unlock(p)
  \/ switch_target(p) \/ rollback_target(p) \/ update_old_current(p)
  \/ release_lock(p) \/ clean_up(p)
  \/ init_snapshot(p) \/ init_meta(p) \/ read_only_verb(p) \/ print_meta(p)
  \/ updater_init_snapshot(p) \/ updater_init_marker(p)
  \/ updater_unlink_current(p) \/ updater_symlink_current(p)
  \/ updater_remove_transaction_marker(p)

\* One operator runs one verb after the other; a verb may be killed.
Next == Tick \/ VerbStep(1) \/ Kill(1)

Spec == Init /\ [][Next]_vars

\* One operator runs one verb after the other, and every verb runs to its return.
NextNoKill == Tick \/ VerbStep(1)

SpecNoKill == Init /\ [][NextNoKill]_vars

\* Two processes run switch, rollback and status at the same time, each of its
\* steps at any moment.
RaceVerbs == {"switch", "rollback", "status"}

StartRace(p) == StartOf(p, RaceVerbs)

NextRace ==
  \E p \in Procs :
    \/ StartRace(p)
    \/ acquire_lock(p) \/ lock_create(p) \/ validate_system(p)
    \/ switch_target(p) \/ rollback_target(p)
    \/ set_default(p) \/ unlink_current(p) \/ symlink_current(p)
    \/ update_old_current(p) \/ release_lock(p) \/ read_only_verb(p)
    \/ print_meta(p)

SpecRace == Init /\ [][NextRace]_vars

\* ---------------------------------------------------------------------------
\* Text functions: snapshot_recursive and get_root_device read the output of
\* btrfs and findmnt.  A string is a sequence of characters; the words of a
\* list line and the literal <FS_TREE> are one character each.

\* The longest root source findmnt reports.
MaxLen == 4

\* s.starts_with(p)
StartsWith(s, p) == Len(p) <= Len(s) /\ SubSeq(s, 1, Len(p)) = p

\* &s[n..]
Drop(s, n) == SubSeq(s, n + 1, Len(s))

\* The subvolumes a filesystem may hold beside its top level, by their path
\* from the top level, in the order of --sort=path.
SubvolOrder == << <<"@">>, <<"@", "/", "v">>, <<"@", "h">> >>

Subvolumes == {SubvolOrder[k] : k \in 1..Len(SubvolOrder)}

\* The top-level subvolume, whose path from the top level is empty.
TopLevel == <<>>

\* The path columns btrfs subvolume list -a prints: behind <FS_TREE>/, behind a
\* slash, or bare.
ListStyles == {"fstree", "abs", "rel"}

ListedPath(path, style) ==
  CASE style = "fstree" -> <<"<FS_TREE>", "/">> \o path
    [] style = "abs" -> <<"/">> \o path
    [] OTHER -> path

\* One line of btrfs subvolume list, with or without the top level column.
ListLine(path, style, withTop) ==
  (IF withTop THEN <<"ID", "5", "gen", "7", "top level", "5", "path">>
   ELSE <<"ID", "5", "gen", "7", "path">>) \o ListedPath(path, style)

\* stdout_list.lines(): every subvolume of the filesystem, sorted by path.
ListLines(subs, style, withTop) ==
  LET RECURSIVE From(_)
      From(k) == IF k > Len(SubvolOrder) THEN <<>>
                 ELSE (IF SubvolOrder[k] \in subs
                       THEN <<ListLine(SubvolOrder[k], style, withTop)>>
                       ELSE <<>>) \o From(k + 1)
  IN From(1)

\* \d+
Digits(c) == c \in {"5", "7"}

\* Regex "ID \d+ gen \d+ path (.*)": the places of a line where it matches.
ReMatches(line) ==
  {k \in 1..Len(line) :
     /\ k + 4 <= Len(line)
     /\ line[k] = "ID" /\ Digits(line[k + 1]) /\ line[k + 2] = "gen"
     /\ Digits(line[k + 3]) /\ line[k + 4] = "path"}

\* captures.get(1) of the leftmost match.
ReCapture(line) ==
  LET k == CHOOSE x \in ReMatches(line) : \A y \in ReMatches(line) : x <= y
  IN Drop(line, k + 4)

\* The first line of btrfs subvolume show: the path from the top level, a
\* slash for the top level itself.
ShowFirstLine(src) == IF src = TopLevel THEN <<"/">> ELSE src

\* get_subvol_name: the core returns the line, the updater maps "/" to "".
get_subvol_name(impl, src) ==
  IF impl = "updater" /\ ShowFirstLine(src) \in {<<>>, <<"/">>} THEN <<>>
  ELSE ShowFirstLine(src)

\* let prefix = ...
Prefix(impl, src) ==
  LET source_subvol == get_subvol_name(impl, src) IN
  IF impl = "core"
  THEN IF source_subvol = <<>> THEN <<"<FS_TREE>", "/">>
       ELSE <<"<FS_TREE>", "/">> \o source_subvol \o <<"/">>
  ELSE IF source_subvol = <<>> THEN <<"/">>
       ELSE <<"/">> \o source_subvol

\* The kernel resolves source/rel and dest/rel: slashes in front of rel vanish.
RECURSIVE Resolve(_)
Resolve(rel) ==
  IF rel # <<>> /\ Head(rel) = "/" THEN Resolve(Tail(rel)) ELSE rel

\* The nested subvolumes of src, by their path from src.
NestedOf(src, subs) ==
  IF src = TopLevel THEN subs
  ELSE {Drop(sub, Len(src) + 1) : sub \in {x \in subs : StartsWith(x, src \o <<"/">>)}}

\* The directory a path lies in, empty for a path without a slash.
ParentDir(path) ==
  LET slashes == {k \in 1..Len(path) : path[k] = "/"} IN
  IF slashes = {} THEN <<>>
  ELSE SubSeq(path, 1, (CHOOSE x \in slashes : \A y \in slashes : y <= x) - 1)

\* A snapshot holds an empty directory where its source holds a subvolume:
\* dest/rel is that placeholder when the snapshot above rel is there.
PlaceholderExists(rel) ==
  /\ Resolve(rel) \in NestedOf(calc.src, calc.subs)
  /\ \/ ParentDir(Resolve(rel)) = <<>>
     \/ \E m \in calc.made : m.rel = ParentDir(Resolve(rel))

\* rmdir sub_dest succeeds on an empty directory of a writable snapshot.
RmdirOk(rel) == PlaceholderExists(rel) /\ calc.writable

\* btrfs subvolume snapshot [-r] source/rel dest/rel succeeds when source/rel
\* is a subvolume, dest/rel does not exist and the snapshot above it is writable.
NestedSnapshotOk(rel) ==
  /\ Resolve(rel) \in NestedOf(calc.src, calc.subs)
  /\ calc.writable
  /\ RmdirOk(rel) \/ ~PlaceholderExists(rel)

\* The inputs of snapshot_recursive: a source subvolume of a filesystem, the
\* format of the list, the flag.
SnapshotInputs ==
  {[NoCalc EXCEPT !.fn = "snapshot", !.impl = impl, !.pc = "call", !.src = src,
                  !.subs = subs, !.style = style, !.withTop = withTop,
                  !.writable = writable] :
     impl \in {"core", "updater"}, src \in {TopLevel, <<"@">>},
     subs \in {x \in SUBSET Subvolumes : <<"@">> \in x},
     style \in ListStyles, withTop \in BOOLEAN, writable \in BOOLEAN}

\* snapshot_recursive up to its loop: the snapshot of source at dest, the list,
\* the name of the source.
snapshot_recursive ==
  /\ calc.fn = "snapshot" /\ calc.pc = "call"
  /\ calc' = [calc EXCEPT !.pc = "line", !.i = 1]
  /\ UNCHANGED <<fsvars, now, proc, crashed, runs, toolsFail, lastSwitch>>

\* One turn of the loop over the lines of the list.
snapshot_line ==
  /\ calc.fn = "snapshot" /\ calc.pc = "line"
  /\ LET lines == ListLines(calc.subs, calc.style, calc.withTop)
         prefix == Prefix(calc.impl, calc.src)
     IN IF calc.i > Len(lines)
        THEN calc' = [calc EXCEPT !.pc = "done", !.result = "ok"]
        ELSE LET line == lines[calc.i]
                 full_path == ReCapture(line)
                 rel_path == Drop(full_path, Len(prefix))
             IN IF \/ ReMatches(line) = {}
                   \/ ~StartsWith(full_path, prefix)
                   \/ rel_path = <<>>
                THEN calc' = [calc EXCEPT !.i = @ + 1]
                ELSE IF \/ calc.impl = "updater" /\ ~RmdirOk(rel_path)
                        \/ ~NestedSnapshotOk(rel_path)
                     THEN calc' = [calc EXCEPT !.pc = "done", !.result = "err"]
                     ELSE calc' = [calc EXCEPT
                                     !.i = @ + 1,
                                     !.made = @ \cup {[rel |-> Resolve(rel_path),
                                                       writable |-> calc.writable]}]
  /\ UNCHANGED <<fsvars, now, proc, crashed, runs, toolsFail, lastSwitch>>

\* The characters of a root source.
SourceChars == {"d", "[", "@", "]"}

Whitespace == {" ", "\n"}

\* The lines findmnt -no SOURCE / may print, each ended by a newline.
FindmntOutputs ==
  {line \o <<"\n">> : line \in UNION {[1..n -> SourceChars] : n \in 0..MaxLen}}

\* str::trim
RECURSIVE TrimStart(_)
TrimStart(s) ==
  IF s # <<>> /\ Head(s) \in Whitespace THEN TrimStart(Tail(s)) ELSE s

RECURSIVE TrimEnd(_)
TrimEnd(s) ==
  IF s # <<>> /\ s[Len(s)] \in Whitespace THEN TrimEnd(SubSeq(s, 1, Len(s) - 1))
  ELSE s

Trim(s) == TrimEnd(TrimStart(s))

\* The pattern the core hands to str::replace, a string and not a regex.
BracketPattern == <<"\\", "[", ".", "*", "\\", "]">>

\* str::replace(from, to): every occurrence of the string from, left to right.
RECURSIVE Replace(_, _, _)
Replace(s, from, to) ==
  IF s = <<>> THEN <<>>
  ELSE IF StartsWith(s, from) THEN to \o Replace(Drop(s, Len(from)), from, to)
  ELSE <<Head(s)>> \o Replace(Tail(s), from, to)

\* str::find(c): the first place of c, 0 for None.
Find(s, c) ==
  IF \E k \in 1..Len(s) : s[k] = c
  THEN CHOOSE k \in 1..Len(s) : s[k] = c /\ \A j \in 1..(k - 1) : s[j] # c
  ELSE 0

\* get_root_device of the core.
CoreRootDevice(stdout) == Replace(Trim(stdout), BracketPattern, <<>>)

\* get_root_device of the updater.
UpdaterRootDevice(stdout) ==
  LET out == Trim(stdout)
      pos == Find(out, "[")
  IN IF pos # 0 THEN Trim(SubSeq(out, 1, pos - 1)) ELSE out

DeviceInputs ==
  {[NoCalc EXCEPT !.fn = "device", !.pc = "call", !.stdout = out] :
     out \in FindmntOutputs}

core_get_root_device ==
  /\ calc.fn = "device" /\ ~calc.coreDone
  /\ calc' = [calc EXCEPT !.core = CoreRootDevice(calc.stdout), !.coreDone = TRUE]
  /\ UNCHANGED <<fsvars, now, proc, crashed, runs, toolsFail, lastSwitch>>

updater_get_root_device ==
  /\ calc.fn = "device" /\ ~calc.updaterDone
  /\ calc' = [calc EXCEPT !.updater = UpdaterRootDevice(calc.stdout),
                          !.updaterDone = TRUE]
  /\ UNCHANGED <<fsvars, now, proc, crashed, runs, toolsFail, lastSwitch>>

\* The text functions run on their inputs; no verb runs.
InitTools ==
  /\ deps \in {store \in BootStores : DOMAIN store = {}}
  /\ current = NoDeployment
  /\ defaultSubvol = NoDeployment
  /\ lock = FALSE
  /\ txMarker = NoDeployment
  /\ topMounted = FALSE
  /\ now = 1
  /\ proc = [p \in Procs |-> IdleProc("none")]
  /\ crashed = NoDeployment
  /\ runs = 0
  /\ toolsFail = FALSE
  /\ lastSwitch = [from |-> NoDeployment, to |-> NoDeployment]
  /\ calc \in SnapshotInputs \cup DeviceInputs

NextTools ==
  \/ snapshot_recursive \/ snapshot_line
  \/ core_get_root_device \/ updater_get_root_device

SpecTools == InitTools /\ [][NextTools]_vars

\* ---------------------------------------------------------------------------
\* Properties
\* ---------------------------------------------------------------------------

\* No verb is running.
AllIdle == \A p \in Procs : proc[p].pc = "idle"

\* This step is the return of p's mutating verb with the given kind of result.
Returns(p, results) ==
  /\ proc[p].pc # "idle"
  /\ proc[p].verb \in MutatingVerbs
  /\ proc'[p].pc = "idle"
  /\ proc'[p].result \in results

\* This step is a step of process p.
StepOf(p) == proc'[p] # proc[p]

\* C1: after any sequence of verbs, each of which succeeded or failed, the
\* current pointer, when it is set, names a deployment that exists and is
\* read-only.
C1_CurrentResolvesToSealed ==
  AllIdle /\ current # NoDeployment
    => Exists(current) /\ deps[current].ro

\* C2: after every verb has returned, the default subvolume is the deployment
\* the current pointer names.
C2_DefaultIsCurrent ==
  AllIdle => defaultSubvol = current

\* Process p is between a successful acquire_lock and the release of the lock.
InCritical(p) ==
  /\ proc[p].pc \notin {"idle", "acquire_lock", "lock_create", "read"}
  /\ proc[p].verb \in MutatingVerbs
  /\ proc[p].result # "locked"

\* C3: under every interleaving of two processes, at most one of them is
\* between acquire_lock and release_lock.
C3_MutualExclusion ==
  \A p \in Procs : \A q \in Procs :
    InCritical(p) /\ InCritical(q) => p = q

\* The verbs that build a new deployment and switch to it as their last step.
BuildVerbs == TxnVerbs \cup {"update"}

\* The positions of switch_to_deployment_inner and of the updater's
\* switch_to_deployment.
SwitchPcs == {"set_default", "unlink_current", "symlink", "u_unlink", "u_symlink"}

\* Process p stands in the switch step of its verb: everything before it,
\* the sealing of the new deployment included, has succeeded.
AtSwitch(p) ==
  /\ proc[p].pc \in SwitchPcs
  /\ Exists(proc[p].new_deployment)
  /\ deps[proc[p].new_deployment].ro

C5_LockReleasedOnReturn ==
  [][\A p \in Procs : Returns(p, {"ok", "err"}) => ~lock']_vars

\* C6: a verb that finds the lock file fails without changing anything on the
\* file system, and the lock file still exists when it has returned.
C6_LockedChangesNothing ==
  [][\A p \in Procs :
       (StepOf(p) /\ proc'[p].result = "locked") => (lock' /\ UNCHANGED fsvars)]_vars

\* The verbs that are to be refused while a crashed transaction is pending.
RefusedVerbs == BuildVerbs \cup {"switch", "rollback"}

\* C7: from a kill in mid-transaction until cleanup has run, no step of install,
\* remove, refresh, update, switch or rollback creates a deployment or moves the
\* current pointer, and none of these verbs succeeds.
C7_RefusedAfterCrash ==
  [][\A p \in Procs :
       (crashed # NoDeployment /\ StepOf(p) /\ proc[p].verb \in RefusedVerbs)
         => /\ DOMAIN deps' \subseteq DOMAIN deps
            /\ current' = current
            /\ ~Returns(p, {"ok"})]_vars

\* C8: when the cleanup that follows a crash returns, the broken deployment
\* (unless it is the current one), the transaction marker and the lock file are
\* gone.
C8_CleanupRecovers ==
  [][\A p \in Procs :
       (crashed # NoDeployment /\ proc[p].verb = "cleanup"
          /\ Returns(p, {"ok", "err", "locked"}))
         => /\ ~lock'
            /\ txMarker' = NoDeployment
            /\ crashed # current => crashed \notin DOMAIN deps']_vars

\* C9: when a mutating verb returns, on whatever path, nothing it mounted is
\* still mounted.
C9_NoMountsOnReturn ==
  [][\A p \in Procs :
       Returns(p, {"ok", "err", "locked"}) => proc[p].mounts = <<>>]_vars

\* C10: the removal of the temporary directory comes after the unmounts: it
\* runs only when no mount under the directory is active.
C10_ReleaseOrder ==
  [][\A p \in Procs :
       (StepOf(p) /\ proc[p].pc = "fin_rmtemp" /\ proc[p].temp_chroot)
         => proc[p].mounts = <<>>]_vars

\* C11: a step that unmounts a bind mount unmounts the one that was mounted
\* last among the mounts that are still active.
C11_UnbindInReverse ==
  [][\A p \in Procs :
       (StepOf(p) /\ proc'[p].pc # "idle"
          /\ Len(proc'[p].mounts) < Len(proc[p].mounts))
         => proc'[p].mounts = SubSeq(proc[p].mounts, 1, Len(proc[p].mounts) - 1)]_vars

\* The statuses of a deployment that is fit to boot.
SealedStatuses == {"ready", "current", "previous", "rollback"}

\* C12: in every state, a deployment whose sidecar, the core's or the
\* updater's, has status ready, current, previous or rollback is read-only.
C12_StatusImpliesSealed ==
  \A d \in DOMAIN deps :
    (deps[d].meta \in SealedStatuses \/ deps[d].umeta \in SealedStatuses)
      => deps[d].ro

\* C13: at the step of install, remove, refresh or update that makes a
\* deployment current, the deployment is read-only and so is every subvolume
\* nested inside it.
C13_SealedRecursively ==
  [][\A p \in Procs :
       (StepOf(p) /\ proc[p].verb \in BuildVerbs
          /\ current' # current /\ current' # NoDeployment)
         => /\ deps[current'].ro
            /\ deps[current'].nested # "rw"]_vars

\* The current deployment was brought up to date with the repository: its
\* .meta.json is that of an update.
UpToDate ==
  /\ current # NoDeployment
  /\ Exists(current)
  /\ deps[current].ukind = "update"

\* C14: an update that runs on a system that an update has already brought up
\* to date creates no deployment and leaves the current pointer alone.
C14_UpdateIdempotent ==
  [][\A p \in Procs :
       (StepOf(p) /\ proc[p].verb = "update" /\ UpToDate)
         => (DOMAIN deps' = DOMAIN deps /\ current' = current)]_vars

\* Deployment d exists and is sealed.
Sealed(d) == Exists(d) /\ deps[d].ro

\* C15: with no command failing, a switch to a named sealed deployment, on a
\* system that holds a second sealed deployment and that passed the lock and
\* the validation, returns success with the current pointer on the named
\* deployment: so does each switch of switch A; switch B; switch A.
C15_SwitchSucceeds ==
  [][\A p \in Procs :
       (/\ ~toolsFail
        /\ proc[p].verb = "switch"
        /\ proc[p].arg # NoDeployment
        /\ proc[p].old_current # NoDeployment
        /\ Sealed(proc[p].arg)
        /\ \E b \in DOMAIN deps : b # proc[p].arg /\ Sealed(b)
        /\ Returns(p, {"ok", "err"}))
         => (proc'[p].result = "ok" /\ current' = proc[p].arg)]_vars

\* The n-th most recent of the deployments other than cur, n >= 1.
NthBefore(S, cur, n) == NthNewest(S \ {cur}, n - 1)

\* C16: the target rollback(n) selects, n >= 1, is the n-th most recent
\* deployment among those other than the current one, and is never the current
\* one.
C16_RollbackTarget ==
  [][\A p \in Procs :
       (/\ StepOf(p)
        /\ proc[p].pc = "rollback_target"
        /\ proc'[p].pc = "set_default"
        /\ proc[p].arg >= 1)
         => /\ proc'[p].target # current
            /\ proc'[p].target = NthBefore(DOMAIN deps, current, proc[p].arg)]_vars


\* C17: a switch without argument makes current the deployment that was current
\* before the last successful switch.
C17_SwitchBack ==
  [][\A p \in Procs :
       (/\ StepOf(p)
        /\ proc[p].verb = "switch"
        /\ proc[p].arg = NoDeployment
        /\ lastSwitch.from # NoDeployment
        /\ proc[p].old_current = lastSwitch.to
        /\ current' # current
        /\ current' # NoDeployment)
         => current' = lastSwitch.from]_vars


\* The deployment that was current before the last successful switch, while
\* the pointer is where that switch left it.
Previous ==
  IF lastSwitch.from # NoDeployment /\ current = lastSwitch.to
    THEN lastSwitch.from
    ELSE NoDeployment

\* C18: cleanup deletes neither the deployment the current pointer names nor
\* the previous deployment.
C18_CleanupKeepsCurrentAndPrevious ==
  [][\A p \in Procs :
       (StepOf(p) /\ proc[p].pc = "clean_up")
         => \A d \in {current, Previous} \cap DOMAIN deps : d \in DOMAIN deps']_vars


\* The n oldest names of S.
KOldest(S, n) == {x \in S : Cardinality({y \in S : y < x}) < n}

\* What cleanup has deleted in a step.
Deleted == DOMAIN deps \ DOMAIN deps'

RefusedByProbe(p) ==
  /\ ~toolsFail
  /\ proc[p].verb \in {"install", "remove"}
  /\ proc[p].mounted
  /\ proc[p].new_deployment # NoDeployment

\* C21: an install of an installed package, or a remove of a package that is
\* not installed, returns an error, leaves the current pointer where it was and
\* leaves the new deployment destroyed or with sidecar status broken.
C21_RefusedPackage ==
  [][\A p \in Procs :
       (RefusedByProbe(p) /\ Returns(p, {"ok", "err"}) /\ proc[p].result = "err")
         => LET D == proc[p].new_deployment IN
            /\ proc'[p].result = "err"
            /\ current' = proc[p].old_current
            /\ (D \notin DOMAIN deps' \/ deps'[D].meta = "broken")]_vars


\* The status in the sidecar the verb v writes: .meta.json for the updater,
\* .hammer-meta.json for the core.
StatusFor(v, rec) == IF v \in UpdaterVerbs THEN rec.umeta ELSE rec.meta

\* C22: when install, remove, refresh or update returns an error after it
\* created its new deployment, that deployment exists with status broken.
C22_FailedIsBroken ==
  [][\A p \in Procs :
       (/\ proc[p].verb \in BuildVerbs
        /\ proc[p].new_deployment # NoDeployment
        /\ Returns(p, {"err"}))
         => LET D == proc[p].new_deployment IN
            /\ D \in DOMAIN deps'
            /\ StatusFor(proc[p].verb, deps'[D]) = "broken"]_vars


\* The verbs that build a deployment and are to leave no marker behind.
MarkerVerbs == BuildVerbs \cup {"init", "uinit"}

\* C23: while the command in the chroot runs, /btrfs-root/hammer-transaction
\* names the new deployment; when a building verb or an init returns Ok, that
\* file does not exist and the deployment it made holds no marker file.
C23_MarkerLifetime ==
  [][\A p \in Procs :
       /\ (StepOf(p) /\ proc[p].verb \in BuildVerbs /\ proc[p].pc = "chroot")
            => txMarker = proc[p].new_deployment
       /\ (proc[p].verb \in MarkerVerbs /\ Returns(p, {"ok"}))
            => /\ txMarker' = NoDeployment
               /\ \A d \in DOMAIN deps' : deps'[d].ro => ~deps'[d].marker]_vars


\* C24: when a verb returns, with Ok or with an error, the deployment it
\* created holds a .hammer-meta.json with a status, written for that deployment
\* by that verb.
C24_SidecarOfItsOwn ==
  [][\A p \in Procs :
       (/\ proc[p].new_deployment # NoDeployment
        /\ Returns(p, {"ok", "err"})
        /\ proc[p].new_deployment \in DOMAIN deps')
         => LET D == proc[p].new_deployment IN
            /\ deps'[D].meta # "none"
            /\ deps'[D].desc = Description(proc[p].verb)]_vars


\* C25: the name of a deployment that create_deployment makes, or returns, is
\* greater than the name of the deployment that is current at that moment,
\* the clock being at or after the second that deployment was made in.
C25_NameAfterParent ==
  [][\A p \in Procs :
       (/\ StepOf(p)
        /\ proc[p].pc = "create_deployment"
        /\ proc[p].verb \in BuildVerbs
        /\ now >= current)
         => /\ \A d \in DOMAIN deps' \ DOMAIN deps : d > current
            /\ proc'[p].new_deployment # NoDeployment
                 => (proc'[p].new_deployment > current
                     /\ proc'[p].new_deployment \in DOMAIN deps')]_vars

\* create_deployment has made a deployment from the current one, and the clock
\* had moved on since the current one was made.
C25_Witness ==
  \E p \in Procs :
    /\ proc[p].verb \in BuildVerbs
    /\ proc[p].pc = "marker"
    /\ current # NoDeployment
    /\ proc[p].new_deployment = now
    /\ proc[p].new_deployment > current


\* Process q is inside switch or rollback, past the choice of its target.
Switching(q) ==
  /\ proc[q].verb \in {"switch", "rollback"}
  /\ proc[q].pc \in SwitchPcs \cup {"switch_meta", "release"}
  /\ proc[q].old_current # NoDeployment

\* C26: when status reads while another process switches, the current symlink
\* is not missing: the read finds a deployment and the verb returns Ok.
C26_ReadersSeeNoPartialState ==
  [][\A p \in Procs :
       (/\ StepOf(p)
        /\ proc[p].pc = "read"
        /\ proc[p].verb = "status"
        /\ \E q \in Procs \ {p} : Switching(q))
         => (current # NoDeployment /\ proc'[p].result = "ok")]_vars


\* The current symlink is missing on an initialized system: the default
\* subvolume is a deployment, the one a switch set before it lost the symlink,
\* the lock of that switch is still there and the top level is mounted.
PointerLost ==
  /\ topMounted
  /\ lock
  /\ \E d \in DOMAIN deps : d # defaultSubvol
  /\ current = NoDeployment
  /\ defaultSubvol # NoDeployment
  /\ Exists(defaultSubvol)

\* C27: status on a system whose current symlink was lost in a switch returns
\* Ok and re-creates the symlink onto the default subvolume.
C27_StatusRepairsPointer ==
  [][\A p \in Procs :
       (/\ StepOf(p)
        /\ proc[p].verb = "status"
        /\ proc[p].pc = "read"
        /\ proc'[p].result # "killed"
        /\ PointerLost)
         => (proc'[p].result = "ok" /\ current' = defaultSubvol)]_vars


\* C28: a building verb never makes current a deployment in which the kernel
\* image or the initrd is missing.
C28_NoKernelNoPromotion ==
  [][\A p \in Procs :
       (/\ StepOf(p)
        /\ proc[p].verb \in BuildVerbs
        /\ current' # current
        /\ current' # NoDeployment)
         => deps[current'].boot]_vars


\* The deployments whose sidecar has status s after the step.
WithStatus(s) == {d \in DOMAIN deps' : deps'[d].meta = s}

\* C29: when install, remove, refresh or switch returns Ok and has moved the
\* current pointer, the deployment that was current has status previous, the
\* new current one has not, and no other deployment has it.
C29_PreviousAfterSwitch ==
  [][\A p \in Procs :
       (/\ proc[p].verb \in TxnVerbs \cup {"switch"}
        /\ Returns(p, {"ok"})
        /\ proc[p].old_current # NoDeployment
        /\ current' # proc[p].old_current)
         => /\ proc[p].old_current \in WithStatus("previous")
            /\ current' \notin WithStatus("previous")
            /\ Cardinality(WithStatus("previous")) <= 1]_vars

\* C30: when rollback returns Ok, its target is current and has status
\* rollback, and the deployment that was current has status previous.
C30_RollbackStatuses ==
  [][\A p \in Procs :
       (/\ proc[p].verb = "rollback"
        /\ Returns(p, {"ok"})
        /\ proc[p].target # proc[p].old_current)
         => /\ current' = proc[p].target
            /\ proc[p].target \in WithStatus("rollback")
            /\ proc[p].old_current \in WithStatus("previous")]_vars


\* C31: an init of the core or of the updater on a system with no deployment,
\* every tool succeeding, returns Ok with its deployment sealed, current and
\* holding its sidecar, and with neither the lock file nor the marker left.
C31_InitCompletes ==
  [][\A p \in Procs :
       (/\ proc[p].verb \in {"init", "uinit"}
        /\ ~toolsFail
        /\ Returns(p, {"ok", "err"})
        /\ DOMAIN deps \subseteq {proc[p].new_deployment})
         => LET D == proc[p].new_deployment IN
            /\ proc'[p].result = "ok"
            /\ D \in DOMAIN deps'
            /\ deps'[D].ro
            /\ current' = D
            /\ StatusFor(proc[p].verb, deps'[D]) # "none"
            /\ ~lock'
            /\ txMarker' = NoDeployment]_vars


\* C32: when snapshot_recursive returns Ok, the destination holds, for every
\* subvolume nested in the source, a snapshot at the same relative path that
\* carries the flag of the call.
C32_NestedSnapshotted ==
  (calc.fn = "snapshot" /\ calc.result = "ok")
    => \A rel \in NestedOf(calc.src, calc.subs) :
         [rel |-> rel, writable |-> calc.writable] \in calc.made


\* C33: whatever root source findmnt prints, a device name alone or one followed
\* by one bracketed suffix, both programs hand the device without the suffix to
\* mount, and so the same device.
C33_DeviceWithoutSuffix ==
  (calc.fn = "device" /\ calc.coreDone /\ calc.updaterDone)
    => LET line == SubSeq(calc.stdout, 1, Len(calc.stdout) - 1)
           BracketFree(s) == \A k \in 1..Len(s) : s[k] \notin {"[", "]"}
       IN \A n \in 1..Len(line) :
            LET dev == SubSeq(line, 1, n)
                rest == Drop(line, n)
            IN (/\ BracketFree(dev)
                /\ \/ rest = <<>>
                   \/ /\ Len(rest) >= 2
                      /\ rest[1] = "[" /\ rest[Len(rest)] = "]"
                      /\ BracketFree(SubSeq(rest, 2, Len(rest) - 1)))
                 => calc.core = dev /\ calc.updater = dev


\* C34: on an initialized system whose top level is not mounted, a mutating
\* verb whose tools succeed does not fail its validation for want of the
\* pointer: the top level is mounted before the pointer is looked up.
C34_MountOnDemand ==
  [][\A p \in Procs :
       (/\ proc[p].pc = "validate"
        /\ StepOf(p)
        /\ ~toolsFail
        /\ ~topMounted
        /\ current # NoDeployment /\ Exists(current) /\ deps[current].ro)
         => proc'[p].result # "err"]_vars


\* C35: the deployment a building verb makes is never the current one or the
\* default while it is writable, while it is mounted on the temp dir or while
\* the lock is not held; and when the verb returns Ok the deployment is sealed
\* and current, its transaction marker was removed while the lock was held, and
\* the lock is released by the last step.
C35_TransactionOrder ==
  [][\A p \in Procs :
       LET nd == proc[p].new_deployment IN
       /\ (/\ proc[p].verb \in BuildVerbs
           /\ proc[p].pc # "idle"
           /\ nd # NoDeployment
           /\ current = nd \/ defaultSubvol = nd)
            => /\ lock
               /\ Exists(nd) /\ deps[nd].ro
               /\ proc[p].mounts = <<>>
       /\ (proc[p].verb \in BuildVerbs /\ Returns(p, {"ok"}))
            => /\ current' = nd
               /\ proc[p].verb \in TxnVerbs => defaultSubvol' = nd
               /\ deps'[nd].ro
               /\ lock /\ txMarker = NoDeployment /\ ~deps[nd].marker
               /\ ~lock']_vars


\* C36: a verb that returns an error leaves the pointer and the default
\* subvolume as it found them.
C36_ErrorChangesNoPointer ==
  [][\A p \in Procs :
       Returns(p, {"err"})
         => /\ current' = proc[p].was_current
            /\ defaultSubvol' = proc[p].was_default]_vars


\* C37: the deployment a switch or a rollback makes current is sealed and is
\* not the leftover of a transaction: its status is neither broken nor
\* building.
C37_NoLeftoverBecomesCurrent ==
  [][\A p \in Procs :
       (/\ proc[p].verb \in {"switch", "rollback"}
        /\ StepOf(p)
        /\ current' # current
        /\ current' # NoDeployment)
         => /\ Exists(current')
            /\ deps[current'].ro
            /\ deps[current'].meta \notin {"broken", "building"}
            /\ deps[current'].umeta \notin {"broken", "building"}]_vars


\* C38: no step of status or list changes the lock file, the transaction
\* marker, a deployment, a sidecar, the pointer or the default subvolume; with
\* or without the lock file the verb goes on to print and to return, and is
\* never refused for the lock.
C38_ReadersChangeNothing ==
  [][\A p \in Procs :
       (proc[p].verb \in ReadVerbs /\ StepOf(p))
         => /\ fsvars' = fsvars
            /\ proc'[p].result # "locked"
            /\ proc'[p].result # "killed"
                 => /\ proc'[p].pc \in {"print_meta", "idle"}
                    /\ proc[p].pc = "print_meta"
                         => proc'[p].pc = "idle" /\ proc'[p].result = "ok"]_vars

\* A status or a list has read the store and is about to print while the lock
\* file of another verb exists.
C38_Witness ==
  \E p \in Procs :
    /\ proc[p].verb \in ReadVerbs
    /\ proc[p].pc = "print_meta"
    /\ lock
    /\ current # NoDeployment


\* C39: whenever a verb creates a deployment, or snapshots at all, the name it
\* formed from the clock is the name of no deployment that exists.
C39_FreshName ==
  [][\A p \in Procs :
       (/\ StepOf(p)
        /\ proc[p].pc \in ClockReads
        /\ proc'[p].result # "killed"
        /\ proc'[p].new_deployment # NoDeployment \/ deps' # deps)
         => now \notin DOMAIN deps]_vars

====
